---- MODULE Spec2Model ----
(***************************************************************************)
(* A model of the PDF viewer components of 10clear.                        *)
(*                                                                         *)
(*   src/src/App.tsx        the single-page viewer fed by a pasted API     *)
(*                          response (mounted = "App")                     *)
(*   src/unnamed/part_002   the all-pages viewer with a lunr index over    *)
(*                          the extracted text and bbox overlays           *)
(*                          (mounted = "Viewer")                           *)
(*                                                                         *)
(* JavaScript values are tagged records: [t |-> "undefined"],              *)
(* [t |-> "null"], [t |-> "num", v |-> n], [t |-> "str", s |-> chars],     *)
(* [t |-> "arr", items |-> seq], [t |-> "obj", ...].  A string is the      *)
(* sequence of its characters.  Lengths and coordinates are integers;      *)
(* the zoom scale is kept in tenths (13 is 1.3).                           *)
(***************************************************************************)
EXTENDS Integers, Sequences, FiniteSets, TLC

VARIABLES
    mounted,                \* which App component is mounted
    pdf,                    \* useState<File | null>
    scale,                  \* useState(1.0 / 1.3), in tenths
    searchText,             \* useState("")
    apiData,                \* useState<APIResponse | null>      (App.tsx)
    searchResults,          \* useState([])
    metadata,               \* useState({totalPages, currentPage, ...})
    highlights,             \* useState<Highlight[]> / Record<number, Highlight[]>
    pdfDocumentRef,         \* useRef<PDFDocumentProxy | null>
    searchIndexRef,         \* useRef<lunr.Index | null>
    searchItemsRef,         \* useRef<SearchableItem[]>
    apiInput,               \* useState("")  (jsonInput in part_002)
    boundingElements,       \* useState<SearchableItem[]>        (App.tsx)
    bboxHighlights,         \* useState<BBoxHighlight[]>         (part_002)
    memoizedSearchResults,  \* useMemo(..., [searchText])
    resultsIsMemo,          \* searchResults is the very array the memo holds
    effectDue,              \* the highlight effect's dependencies changed
    alerted,                \* the last message of the last handler: alert(), console
    tasks,                  \* pending promises: getDocument, index builds, parses
    loads                   \* number of files chosen so far

vars == <<mounted, pdf, scale, searchText, apiData, searchResults, metadata,
          highlights, pdfDocumentRef, searchIndexRef, searchItemsRef, apiInput,
          boundingElements, bboxHighlights, memoizedSearchResults,
          resultsIsMemo, effectDue, alerted, tasks, loads>>

-----------------------------------------------------------------------------
(* Bounds of the model *)

MaxLoads == 1

\* the parses of a pasted JSON that may be under way at a time
MaxPending == 1

\* the largest API tree that is flattened on its own
MaxNodes == 4

\* the longest string of a text run and the longest search text given to
\* calculateHighlights on its own
MaxStrLen == 3
MaxSearchLen == 2

\* the highlight computations of the viewer that may be under way at a time
MaxSearches == 2

-----------------------------------------------------------------------------
(* JavaScript values *)

Undefined == [t |-> "undefined"]
Null == [t |-> "null"]
Num(n) == [t |-> "num", v |-> n]
Str(s) == [t |-> "str", s |-> s]
Arr(items) == [t |-> "arr", items |-> items]

IsNumber(v) == v.t = "num"
IsArray(v) == v.t = "arr"

\* ToBoolean: undefined, null, 0 and "" are falsy.
Truthy(v) ==
    CASE v.t = "undefined" -> FALSE
      [] v.t = "null" -> FALSE
      [] v.t = "num" -> v.v # 0
      [] v.t = "str" -> v.s # <<>>
      [] OTHER -> TRUE

WhiteSpace == {" "}

RECURSIVE TrimStart(_)
TrimStart(s) ==
    IF s # <<>> /\ Head(s) \in WhiteSpace THEN TrimStart(Tail(s)) ELSE s

RECURSIVE TrimEnd(_)
TrimEnd(s) ==
    IF s # <<>> /\ s[Len(s)] \in WhiteSpace
    THEN TrimEnd(SubSeq(s, 1, Len(s) - 1))
    ELSE s

\* String.prototype.trim
Trim(s) == TrimEnd(TrimStart(s))

Range(s) == {s[i] : i \in 1..Len(s)}

Max(a, b) == IF a >= b THEN a ELSE b
Min(a, b) == IF a <= b THEN a ELSE b

-----------------------------------------------------------------------------
(* The pasted API responses (App.tsx: APIElement, APIResponse) *)

\* type BoundingBox
BoundingBox(x, y, width, height) ==
    [t |-> "obj", x |-> x, y |-> y, width |-> width, height |-> height]

\* type APIElement; children is an array or undefined
APIElement(id, page, value, boundingBox, children) ==
    [t |-> "obj", id |-> id, page |-> page, value |-> value,
     boundingBox |-> boundingBox, children |-> children]

\* type APIResponse, as far as the component reads it
APIResponse(meta, result) ==
    [t |-> "obj", metadata |-> meta, result |-> result]

TitleMetadata == [t |-> "obj", title |-> "Report"]

ResultA ==
    Arr(<<
      APIElement("n1", Num(0), Str(<<"x">>), BoundingBox(1, 2, 3, 4),
        Arr(<<
          APIElement("n2", Num(1), Str(<<"x", " ", "y">>),
                     BoundingBox(5, 6, 7, 8), Arr(<<>>)),
          APIElement("n3", Num(1), Str(<<" ">>), BoundingBox(2, 2, 2, 2),
            Arr(<<
              APIElement("n4", Num(1), Str(<<"Y">>), Undefined, Undefined)
            >>))
        >>)),
      APIElement("n5", Num(3), Str(<<"y", " ", "x">>),
                 BoundingBox(9, 9, 1, 1), Undefined),
      APIElement("n6", Num(-1), Str(<<"w">>), BoundingBox(4, 4, 4, 4), Undefined),
      APIElement("n7", Str(<<"2">>), Str(<<"w">>), BoundingBox(3, 3, 3, 3), Undefined)
    >>)

ResultB ==
    Arr(<<
      APIElement("m1", Num(2), Str(<<"y">>), BoundingBox(6, 5, 4, 3), Undefined),
      APIElement("m2", Num(0), Undefined, BoundingBox(1, 1, 1, 1), Undefined)
    >>)

\* The texts a user pastes, by name
PastedTexts ==
    {"", "  ", "{", "not json", "null", "5", "{\"metadata\":{\"title\":\"Report\"}}",
     "{\"result\":{}}", "{\"result\":0}", "{\"result\":[]}",
     "{\"metadata\":{\"title\":\"Report\"},\"result\":[A]}",
     "{\"metadata\":{\"title\":\"Report\"},\"result\":[B]}"}

\* interface Children (schema.ts), as far as part_002 reads it
Children(id, page, value, bbox, children) ==
    [t |-> "obj", id |-> id, page |-> page, value |-> value, bbox |-> bbox,
     children |-> children]

\* bbox: [x1, y1, x2, y2], origin at the bottom left of the page
BBox(x1, y1, x2, y2) == Arr(<<x1, y1, x2, y2>>)

RootResultA ==
    Arr(<<
      Children("v1", Num(1), Str(<<"x">>), BBox(10, 20, 40, 30),
        Arr(<<
          Children("v2", Num(2), Str(<<"y">>), BBox(5, 150, 25, 190), Arr(<<>>)),
          Children("v3", Num(1), Str(<<>>), BBox(1, 1, 2, 2),
            Arr(<<
              Children("v4", Num(1), Str(<<"y">>), BBox(0, 0, 90, 100), Undefined)
            >>))
        >>)),
      Children("v5", Num(0), Str(<<"x">>), BBox(3, 3, 4, 4), Undefined),
      Children("v6", Num(1), Str(<<"x">>), Undefined, Undefined)
    >>)

RootResultB ==
    Arr(<<
      Children("w1", Num(1), Str(<<"y">>), BBox(10, 90, 20, 120), Undefined),
      Children("w2", Num(3), Str(<<"x">>), BBox(1, 1, 2, 2), Undefined)
    >>)

\* the texts pasted into the all-pages viewer
JsonTexts ==
    {"{", "null", "{}", "{\"result\":[VA]}", "{\"result\":[VB]}"}

\* the texts pasted in the runs that exercise search and navigation
SearchSessionTexts ==
    {"{", "{\"metadata\":{\"title\":\"Report\"},\"result\":[A]}"}

SyntaxError == [ok |-> FALSE]
Parsed(data) == [ok |-> TRUE, data |-> data]

\* JSON.parse on the pasted texts: the value, or a SyntaxError
JSONParse(text) ==
    CASE text = "null" -> Parsed(Null)
      [] text = "5" -> Parsed(Num(5))
      [] text = "{\"metadata\":{\"title\":\"Report\"}}" ->
            Parsed(APIResponse(TitleMetadata, Undefined))
      [] text = "{\"result\":{}}" ->
            Parsed(APIResponse(Undefined, [t |-> "obj"]))
      [] text = "{\"result\":0}" -> Parsed(APIResponse(Undefined, Num(0)))
      [] text = "{\"result\":[]}" -> Parsed(APIResponse(Undefined, Arr(<<>>)))
      [] text = "{\"metadata\":{\"title\":\"Report\"},\"result\":[A]}" ->
            Parsed(APIResponse(TitleMetadata, ResultA))
      [] text = "{\"metadata\":{\"title\":\"Report\"},\"result\":[B]}" ->
            Parsed(APIResponse(TitleMetadata, ResultB))
      [] text = "{}" -> Parsed(APIResponse(Undefined, Undefined))
      [] text = "{\"result\":[VA]}" -> Parsed(APIResponse(Undefined, RootResultA))
      [] text = "{\"result\":[VB]}" -> Parsed(APIResponse(Undefined, RootResultB))
      [] OTHER -> SyntaxError

\* apiInput.trim() is empty
BlankText(text) == text \in {"", "  "}

\* Property access data.result: undefined on a number, a TypeError on null
GetResult(data) == IF data.t = "obj" THEN data.result ELSE Undefined

-----------------------------------------------------------------------------
(* App.tsx: flattening the API tree *)

\* items.push({id, text, pageIndex, boundingBox}) for one element
SearchableItem(element) ==
    [id |-> element.id, text |-> element.value, pageIndex |-> element.page,
     boundingBox |-> IF Truthy(element.boundingBox)
                     THEN element.boundingBox ELSE Undefined]

\* element.value && element.value.trim()
HasValue(element) ==
    Truthy(element.value) /\ Trim(element.value.s) # <<>>

\* element.children && element.children.length > 0
HasChildren(element) ==
    Truthy(element.children) /\ Len(element.children.items) > 0

RECURSIVE processElement(_)
RECURSIVE forEachProcessElement(_)

\* a traversal that pushes an element after its children
processElement_childrenFirst(element) ==
    (IF HasChildren(element)
     THEN forEachProcessElement(element.children.items) ELSE <<>>)
    \o (IF HasValue(element) THEN <<SearchableItem(element)>> ELSE <<>>)

\* const processElement = (element: APIElement) => { ... }
processElement(element) ==
    (IF HasValue(element) THEN <<SearchableItem(element)>> ELSE <<>>)
    \o (IF HasChildren(element)
        THEN forEachProcessElement(element.children.items) ELSE <<>>)

forEachProcessElement(elements) ==
    IF elements = <<>> THEN <<>>
    ELSE processElement(Head(elements)) \o forEachProcessElement(Tail(elements))

processAPIElements(elements) == forEachProcessElement(elements)

-----------------------------------------------------------------------------
(* The lunr full-text index, as far as the components use it: documents    *)
(* are tokenised on white space and lower-cased, a query matches the       *)
(* documents holding one of its terms, and the order of the results (by    *)
(* relevance score) is not modelled: any order may come back.              *)

Lower(c) == CASE c = "X" -> "x" [] c = "Y" -> "y" [] OTHER -> c

RECURSIVE Tokens(_, _)
\* the tokens of the characters s, cur being the token read so far
Tokens(s, cur) ==
    IF s = <<>> THEN (IF cur = <<>> THEN {} ELSE {cur})
    ELSE IF Head(s) \in WhiteSpace
         THEN (IF cur = <<>> THEN {} ELSE {cur}) \cup Tokens(Tail(s), <<>>)
         ELSE Tokens(Tail(s), Append(cur, Lower(Head(s))))

Tokenize(s) == Tokens(s, <<>>)

\* lunr(function () { this.ref("id"); this.field("text"); items.forEach(add) })
lunr(items) ==
    [t |-> "index",
     docs |-> [i \in 1..Len(items) |->
                 [ref |-> items[i].id, tokens |-> Tokenize(items[i].text.s)]]]

\* the refs index.search(query) returns, as a set
SearchRefs(index, query) ==
    {index.docs[i].ref : i \in
        {j \in 1..Len(index.docs) : index.docs[j].tokens \cap Tokenize(query) # {}}}

Orderings(S) ==
    {f \in [1..Cardinality(S) -> S] :
        \A i, j \in 1..Cardinality(S) : i # j => f[i] # f[j]}

\* index.search(query): the matching refs in some order
search(index, query) == Orderings(SearchRefs(index, query))

-----------------------------------------------------------------------------
(* App.tsx: search results and highlights *)

\* searchItemsRef.current.find((searchItem) => searchItem.id === ref)
FindItem(items, ref) ==
    LET hits == {i \in 1..Len(items) : items[i].id = ref}
    IN IF hits = {} THEN Undefined
       ELSE items[CHOOSE i \in hits : \A j \in hits : i <= j]

\* acc.find((g) => g.pageIndex === pageIndex): its position, 0 when none
FindGroup(acc, pageIndex) ==
    LET hits == {i \in 1..Len(acc) : acc[i].pageIndex = pageIndex}
    IN IF hits = {} THEN 0 ELSE CHOOSE i \in hits : \A j \in hits : i <= j

RECURSIVE reduceResults(_, _, _)
\* results.reduce((acc, result) => ..., []): group the matches by page
reduceResults(results, items, acc) ==
    IF results = <<>> THEN acc
    ELSE LET item == FindItem(items, Head(results))
             g == FindGroup(acc, item.pageIndex)
         IN IF item = Undefined THEN reduceResults(Tail(results), items, acc)
            ELSE IF g # 0
            THEN reduceResults(Tail(results), items,
                    [acc EXCEPT ![g].matches = Append(@, item)])
            ELSE reduceResults(Tail(results), items,
                    Append(acc, [pageIndex |-> item.pageIndex, matches |-> <<item>>]))

\* (a, b) => a.pageIndex - b.pageIndex; NaN compares as 0
ComparePage(a, b) ==
    IF IsNumber(a.pageIndex) /\ IsNumber(b.pageIndex)
    THEN a.pageIndex.v - b.pageIndex.v ELSE 0

\* insert g into the sorted groups, after the groups that do not sort after it
RECURSIVE InsertGroup(_, _)
InsertGroup(sorted, g) ==
    IF sorted = <<>> THEN <<g>>
    ELSE IF ComparePage(sorted[Len(sorted)], g) > 0
         THEN Append(InsertGroup(SubSeq(sorted, 1, Len(sorted) - 1), g),
                     sorted[Len(sorted)])
         ELSE Append(sorted, g)

RECURSIVE SortGroups(_)
\* Array.prototype.sort with ComparePage (stable)
SortGroups(groups) ==
    IF groups = <<>> THEN <<>>
    ELSE InsertGroup(SortGroups(SubSeq(groups, 1, Len(groups) - 1)),
                     groups[Len(groups)])

\* the body of useMemo once the index has answered with results
GroupResults(results, items) == SortGroups(reduceResults(results, items, <<>>))

\* matches.filter((match) => match.boundingBox).map(...)
calculateHighlights(matches) ==
    LET boxed == SelectSeq(matches, LAMBDA m : Truthy(m.boundingBox))
    IN [i \in 1..Len(boxed) |->
          [left |-> boxed[i].boundingBox.x, top |-> boxed[i].boundingBox.y,
           width |-> boxed[i].boundingBox.width,
           height |-> boxed[i].boundingBox.height,
           pageIndex |-> boxed[i].pageIndex]]

\* highlights taken from the group of the page before
updateHighlightsForPage_pageBefore(results, pageIndex) ==
    LET g == FindGroup(results, Num(pageIndex - 1))
    IN IF g # 0 THEN calculateHighlights(results[g].matches) ELSE <<>>

\* updateHighlightsForPage(pageIndex): the argument of its setHighlights
updateHighlightsForPage(results, pageIndex) ==
    LET g == FindGroup(results, Num(pageIndex))
    IN IF g # 0 THEN calculateHighlights(results[g].matches) ELSE <<>>

-----------------------------------------------------------------------------
(* The PDF files a user can choose *)

NoFile == "null"
Files == {"a.pdf", "b.pdf"}

\* doc.numPages
NumPages(file) == IF file = "a.pdf" THEN 2 ELSE 1

\* the search texts a user types
SearchTexts == {<<>>, <<"x">>, <<"y">>}

-----------------------------------------------------------------------------
(* App.tsx: the component.  A handler is one step; the state updates it    *)
(* queues are applied when it returns.  effectDue says that the render     *)
(* after it changed a dependency of the highlight effect, which React      *)
(* runs before the next event is handled.                                  *)

InitApp ==
    /\ mounted = "App"
    /\ pdf = NoFile
    /\ scale = 10
    /\ searchText = <<>>
    /\ apiData = Null
    /\ searchResults = <<>>
    /\ metadata = [totalPages |-> 0, currentPage |-> 1]
    /\ highlights = <<>>
    /\ pdfDocumentRef = NoFile
    /\ searchIndexRef = Null
    /\ searchItemsRef = <<>>
    /\ apiInput = ""
    /\ boundingElements = <<>>
    /\ bboxHighlights = <<>>
    /\ memoizedSearchResults = <<>>
    /\ resultsIsMemo = FALSE
    /\ effectDue = FALSE
    /\ alerted = ""
    /\ tasks = {}
    /\ loads = 0

AppIdle == mounted = "App" /\ ~effectDue

\* handleFileChange up to its await, and <Document file={pdf}> starting to load
handleFileChange(file) ==
    /\ AppIdle
    /\ loads < MaxLoads
    /\ pdf' = file
    /\ tasks' = {t \in tasks : t.kind # "Document"}
                  \cup {[kind |-> "getDocument", file |-> file, n |-> loads + 1],
                        [kind |-> "Document", file |-> file, n |-> loads + 1]}
    /\ loads' = loads + 1
    /\ alerted' = ""
    /\ UNCHANGED <<mounted, scale, searchText, apiData, searchResults, metadata,
                   highlights, pdfDocumentRef, searchIndexRef, searchItemsRef,
                   apiInput, boundingElements, bboxHighlights,
                   memoizedSearchResults, resultsIsMemo, effectDue>>

\* handleFileChange after pdfjs.getDocument(...).promise resolved
getDocumentResolved(task) ==
    /\ AppIdle
    /\ task \in tasks /\ task.kind = "getDocument"
    /\ pdfDocumentRef' = task.file
    /\ metadata' = [metadata EXCEPT !.totalPages = NumPages(task.file)]
    /\ tasks' = tasks \ {task}
    /\ alerted' = ""
    /\ UNCHANGED <<mounted, pdf, scale, searchText, apiData, searchResults,
                   highlights, searchIndexRef, searchItemsRef, apiInput,
                   boundingElements, bboxHighlights, memoizedSearchResults,
                   resultsIsMemo, effectDue, loads>>

\* <Document onLoadSuccess>
DocumentOnLoadSuccess(task) ==
    /\ AppIdle
    /\ task \in tasks /\ task.kind = "Document"
    /\ metadata' = [metadata EXCEPT !.totalPages = NumPages(task.file)]
    /\ tasks' = tasks \ {task}
    /\ alerted' = ""
    /\ UNCHANGED <<mounted, pdf, scale, searchText, apiData, searchResults,
                   highlights, pdfDocumentRef, searchIndexRef, searchItemsRef,
                   apiInput, boundingElements, bboxHighlights,
                   memoizedSearchResults, resultsIsMemo, effectDue, loads>>

handleZoomIn ==
    /\ AppIdle
    /\ pdf # NoFile
    /\ scale' = Min(scale + 1, 20)
    /\ alerted' = ""
    /\ UNCHANGED <<mounted, pdf, searchText, apiData, searchResults, metadata,
                   highlights, pdfDocumentRef, searchIndexRef, searchItemsRef,
                   apiInput, boundingElements, bboxHighlights,
                   memoizedSearchResults, resultsIsMemo, effectDue,
                   tasks, loads>>

handleZoomOut ==
    /\ AppIdle
    /\ pdf # NoFile
    /\ scale' = Max(scale - 1, 5)
    /\ alerted' = ""
    /\ UNCHANGED <<mounted, pdf, searchText, apiData, searchResults, metadata,
                   highlights, pdfDocumentRef, searchIndexRef, searchItemsRef,
                   apiInput, boundingElements, bboxHighlights,
                   memoizedSearchResults, resultsIsMemo, effectDue,
                   tasks, loads>>

\* the Previous button, disabled on page 1 and below
handlePrevPage ==
    /\ AppIdle
    /\ pdf # NoFile
    /\ ~(metadata.currentPage <= 1)
    /\ metadata' = [metadata EXCEPT !.currentPage = Max(@ - 1, 1)]
    /\ effectDue' = (metadata'.currentPage # metadata.currentPage)
    /\ alerted' = ""
    /\ UNCHANGED <<mounted, pdf, scale, searchText, apiData, searchResults,
                   highlights, pdfDocumentRef, searchIndexRef, searchItemsRef,
                   apiInput, boundingElements, bboxHighlights,
                   memoizedSearchResults, resultsIsMemo, tasks, loads>>

\* the Next button, disabled on the last page and beyond
handleNextPage ==
    /\ AppIdle
    /\ pdf # NoFile
    /\ ~(metadata.currentPage >= metadata.totalPages)
    /\ metadata' = [metadata EXCEPT !.currentPage = Min(@ + 1, metadata.totalPages)]
    /\ effectDue' = (metadata'.currentPage # metadata.currentPage)
    /\ alerted' = ""
    /\ UNCHANGED <<mounted, pdf, scale, searchText, apiData, searchResults,
                   highlights, pdfDocumentRef, searchIndexRef, searchItemsRef,
                   apiInput, boundingElements, bboxHighlights,
                   memoizedSearchResults, resultsIsMemo, tasks, loads>>

\* useEffect(() => updateHighlightsForPage(metadata.currentPage), [...])
highlightEffect ==
    /\ mounted = "App"
    /\ effectDue
    /\ highlights' = updateHighlightsForPage(searchResults, metadata.currentPage)
    /\ effectDue' = FALSE
    /\ alerted' = ""
    /\ UNCHANGED <<mounted, pdf, scale, searchText, apiData, searchResults,
                   metadata, pdfDocumentRef, searchIndexRef, searchItemsRef,
                   apiInput, boundingElements, bboxHighlights,
                   memoizedSearchResults, resultsIsMemo, tasks, loads>>

\* onChange of the search input; the render recomputes the memo, whose only
\* dependency is searchText
setSearchText(text) ==
    /\ AppIdle
    /\ pdf # NoFile
    /\ text # searchText
    /\ searchText' = text
    /\ IF searchIndexRef = Null \/ text = <<>>
       THEN memoizedSearchResults' = <<>>
       ELSE \E results \in search(searchIndexRef, text) :
               memoizedSearchResults' = GroupResults(results, searchItemsRef)
    /\ resultsIsMemo' = FALSE
    /\ alerted' = ""
    /\ UNCHANGED <<mounted, pdf, scale, apiData, searchResults, metadata,
                   highlights, pdfDocumentRef, searchIndexRef, searchItemsRef,
                   apiInput, boundingElements, bboxHighlights, effectDue,
                   tasks, loads>>

\* the Search button.  updateHighlightsForPage is the callback of the last
\* render: it reads the searchResults of before the click.
handleSearch ==
    /\ AppIdle
    /\ pdf # NoFile
    /\ IF searchText = <<>>
       THEN /\ searchResults' = <<>>
            /\ highlights' = <<>>
            /\ resultsIsMemo' = FALSE
            /\ effectDue' = TRUE
       ELSE /\ searchResults' = memoizedSearchResults
            /\ highlights' =
                   updateHighlightsForPage(searchResults, metadata.currentPage)
            /\ resultsIsMemo' = TRUE
            /\ effectDue' = ~resultsIsMemo
    /\ alerted' = ""
    /\ UNCHANGED <<mounted, pdf, scale, searchText, apiData, metadata,
                   pdfDocumentRef, searchIndexRef, searchItemsRef, apiInput,
                   boundingElements, bboxHighlights, memoizedSearchResults,
                   tasks, loads>>

\* a click on the button of search result group g
goToSearchResult(g) ==
    /\ AppIdle
    /\ pdf # NoFile
    /\ g \in 1..Len(searchResults)
    /\ metadata' = [metadata EXCEPT !.currentPage = searchResults[g].pageIndex.v]
    /\ effectDue' = (metadata'.currentPage # metadata.currentPage)
    /\ alerted' = ""
    /\ UNCHANGED <<mounted, pdf, scale, searchText, apiData, searchResults,
                   highlights, pdfDocumentRef, searchIndexRef, searchItemsRef,
                   apiInput, boundingElements, bboxHighlights,
                   memoizedSearchResults, resultsIsMemo, tasks, loads>>

\* onChange of the API response textarea
setApiInput(text) ==
    /\ AppIdle
    /\ text # apiInput
    /\ apiInput' = text
    /\ alerted' = ""
    /\ UNCHANGED <<mounted, pdf, scale, searchText, apiData, searchResults,
                   metadata, highlights, pdfDocumentRef, searchIndexRef,
                   searchItemsRef, boundingElements, bboxHighlights,
                   memoizedSearchResults, resultsIsMemo, effectDue,
                   tasks, loads>>

\* !data.result || !Array.isArray(data.result) is false
ValidResult(data) == Truthy(GetResult(data)) /\ IsArray(GetResult(data))

\* buildSearchIndex(apiResponse): the two refs it assigns
buildSearchIndex(apiResponse) ==
    LET searchableItems == processAPIElements(apiResponse.result.items)
    IN /\ searchItemsRef' = searchableItems
       /\ searchIndexRef' = lunr(searchableItems)

\* a catch block that also drops the data of the last response
catchProcessAPI_clears ==
    /\ alerted' = "Error processing API response"
    /\ apiData' = Null
    /\ boundingElements' = <<>>
    /\ UNCHANGED <<searchItemsRef, searchIndexRef>>

\* catch (error) { console.error(...); alert("Error processing API response: ...") }
catchProcessAPI ==
    /\ alerted' = "Error processing API response"
    /\ UNCHANGED <<apiData, boundingElements, searchItemsRef, searchIndexRef>>

\* alert("Invalid API response format"); return
rejectInvalidFormat ==
    /\ alerted' = "Invalid API response format"
    /\ UNCHANGED <<apiData, boundingElements, searchItemsRef, searchIndexRef>>

\* the Process API Response button, disabled without a PDF or with blank input.
\* JSON.parse throws a SyntaxError; data.result on null throws a TypeError.
handleProcessAPI ==
    /\ AppIdle
    /\ pdf # NoFile
    /\ ~BlankText(apiInput)
    /\ LET parsed == JSONParse(apiInput)
       IN IF ~parsed.ok \/ parsed.data = Null
          THEN catchProcessAPI
          ELSE IF ~ValidResult(parsed.data)
          THEN rejectInvalidFormat
          ELSE /\ apiData' = parsed.data
               /\ boundingElements' = processAPIElements(parsed.data.result.items)
               /\ buildSearchIndex(parsed.data)
               /\ alerted' = "Found elements"
    /\ UNCHANGED <<mounted, pdf, scale, searchText, searchResults, metadata,
                   highlights, pdfDocumentRef, apiInput, bboxHighlights,
                   memoizedSearchResults, resultsIsMemo, effectDue, tasks, loads>>

\* {apiData && <div>Loaded API data: {apiData.metadata.title}</div>}: the
\* text of the line, "" when it is not drawn; reading title of an undefined
\* metadata throws a TypeError while rendering
LoadedApiDataLine ==
    IF ~Truthy(apiData) THEN ""
    ELSE IF apiData.metadata.t # "obj" THEN "TypeError"
    ELSE IF "title" \in DOMAIN apiData.metadata
         THEN "Loaded API data: " \o apiData.metadata.title
         ELSE "Loaded API data: "

\* a.pageIndex - b.pageIndex reads its operands as numbers: "2" is 2
ToNumber(v) == IF v.t = "num" THEN v.v ELSE IF v = Str(<<"2">>) THEN 2 ELSE 0

RECURSIVE InsertElement(_, _)
InsertElement(sorted, e) ==
    IF sorted = <<>> THEN <<e>>
    ELSE IF ToNumber(sorted[Len(sorted)].pageIndex) - ToNumber(e.pageIndex) > 0
         THEN Append(InsertElement(SubSeq(sorted, 1, Len(sorted) - 1), e),
                     sorted[Len(sorted)])
         ELSE Append(sorted, e)

RECURSIVE SortElements(_)
\* .sort((a, b) => a.pageIndex - b.pageIndex), sortOrder being "page"
SortElements(elements) ==
    IF elements = <<>> THEN <<>>
    ELSE InsertElement(SortElements(SubSeq(elements, 1, Len(elements) - 1)),
                       elements[Len(elements)])

\* filteredElements, the rows of the table: elementFilter is "", which every
\* text includes, and sortOrder is "page"
filteredElements == SortElements(boundingElements)

\* Elements with Bounding Boxes ({boundingElements.length}); the list is
\* drawn when the number is not 0
ElementsHeadingCount == Len(boundingElements)

\* typeof element.pageIndex !== "number" || element.pageIndex < 0
InvalidPageIndex(element) ==
    ~IsNumber(element.pageIndex) \/ element.pageIndex.v < 0

\* a bound that takes pageIndex for the page number
ExceedsTotalPages_zeroBased(element, totalPages) ==
    element.pageIndex.v > totalPages

\* pageNumber > metadata.totalPages, pageNumber being element.pageIndex + 1
ExceedsTotalPages(element, totalPages) == element.pageIndex.v + 1 > totalPages

\* the highlight goToElement draws for an element with a bounding box
ElementHighlight(element) ==
    [left |-> element.boundingBox.x, top |-> element.boundingBox.y,
     width |-> element.boundingBox.width, height |-> element.boundingBox.height,
     pageIndex |-> element.pageIndex]

\* console.log("Going to element:", element)
GoingToElement(element) == "Going to element: " \o element.id

\* the Go to button of row e of the elements table
goToElement(e) ==
    /\ AppIdle
    /\ pdf # NoFile
    /\ e \in 1..Len(boundingElements)
    /\ LET element == boundingElements[e]
       IN IF InvalidPageIndex(element)
          THEN /\ alerted' = "Invalid page index"
               /\ UNCHANGED <<metadata, highlights, effectDue>>
          ELSE IF ExceedsTotalPages(element, metadata.totalPages)
          THEN /\ alerted' = "Page exceeds total pages"
               /\ UNCHANGED <<metadata, highlights, effectDue>>
          ELSE /\ metadata' = [metadata EXCEPT
                                  !.currentPage = element.pageIndex.v + 1]
               /\ highlights' = IF Truthy(element.boundingBox)
                                THEN <<ElementHighlight(element)>>
                                ELSE highlights
               /\ effectDue' = (metadata'.currentPage # metadata.currentPage)
               /\ alerted' = GoingToElement(element)
    /\ UNCHANGED <<mounted, pdf, scale, searchText, apiData, searchResults,
                   pdfDocumentRef, searchIndexRef, searchItemsRef, apiInput,
                   boundingElements, bboxHighlights, memoizedSearchResults,
                   resultsIsMemo, tasks, loads>>

NextApp ==
    \/ \E file \in Files : handleFileChange(file)
    \/ \E task \in tasks : getDocumentResolved(task)
    \/ \E task \in tasks : DocumentOnLoadSuccess(task)
    \/ handlePrevPage
    \/ handleNextPage
    \/ highlightEffect
    \/ \E text \in SearchTexts : setSearchText(text)
    \/ handleSearch
    \/ \E g \in 1..Len(searchResults) : goToSearchResult(g)
    \/ \E text \in SearchSessionTexts : setApiInput(text)
    \/ handleProcessAPI
    \/ \E e \in 1..Len(boundingElements) : goToElement(e)

\* App.tsx in a session of searching and navigating
Init == InitApp
Next == NextApp
Spec == Init /\ [][Next]_vars

\* App.tsx in a session of pasting responses and zooming
NextProcess ==
    \/ \E file \in Files : handleFileChange(file)
    \/ \E task \in tasks : getDocumentResolved(task)
    \/ \E task \in tasks : DocumentOnLoadSuccess(task)
    \/ handleZoomIn
    \/ handleZoomOut
    \/ \E text \in PastedTexts : setApiInput(text)
    \/ handleProcessAPI

SpecProcess == InitApp /\ [][NextProcess]_vars

-----------------------------------------------------------------------------
(* part_002: the documents pdf.js opens.  A page has a viewport height at   *)
(* scale 1 and the items of its text content; an item without str is       *)
(* marked content.                                                         *)

\* a TextItem: str, transform[4], transform[5], width, height
TextItem(str, left, bottom, width, height) ==
    [str |-> Str(str), left |-> left, bottom |-> bottom,
     width |-> width, height |-> height]

MarkedContent == [type |-> "beginMarkedContent"]

\* page.getViewport({ scale: 1.0 }).height
ViewportHeight(file, pageNumber) ==
    IF file = "a.pdf" THEN (IF pageNumber = 1 THEN 100 ELSE 200) ELSE 150

\* (await page.getTextContent()).items
TextContentItems(file, pageNumber) ==
    IF file = "a.pdf"
    THEN (IF pageNumber = 1
          THEN <<TextItem(<<"x", " ", "y">>, 10, 80, 30, 10), MarkedContent,
                 TextItem(<<"Y">>, 10, 60, 8, 10)>>
          ELSE <<MarkedContent, TextItem(<<"x">>, 20, 170, 9, 12)>>)
    ELSE <<TextItem(<<"y", " ", "x">>, 15, 120, 24, 10)>>

\* doc.getPage(n) resolves for the pages of the document and rejects otherwise
HasPage(file, pageNumber) == pageNumber \in 1..NumPages(file)

-----------------------------------------------------------------------------
(* part_002: building the search index *)

\* textContent.items.filter((item) => "str" in item)
TextItems(items) == SelectSeq(items, LAMBDA item : "str" \in DOMAIN item)

\* `${pageIndex}-${idx}`
ItemId(pageIndex, idx) == ToString(pageIndex) \o "-" \o ToString(idx)

\* textItems.forEach((item, idx) => searchableItems.push({...})) for one page
PageSearchableItems(file, pageIndex) ==
    LET textItems == TextItems(TextContentItems(file, pageIndex))
    IN [k \in 1..Len(textItems) |->
          [pageIndex |-> pageIndex, item |-> textItems[k],
           text |-> textItems[k].str, id |-> ItemId(pageIndex, k - 1)]]

\* a loop that stops one page early
LoopCondition_exclusive(pageIndex, numPages) == pageIndex < numPages

\* the condition of the loop over the pages
LoopCondition(pageIndex, numPages) == pageIndex <= numPages

ViewerIdle == mounted = "Viewer"

InitViewer ==
    /\ mounted = "Viewer"
    /\ pdf = NoFile
    /\ scale = 13
    /\ searchText = <<>>
    /\ apiData = Null
    /\ searchResults = <<>>
    /\ metadata = [totalPages |-> 0, currentPage |-> 1]
    /\ highlights = <<>>
    /\ pdfDocumentRef = NoFile
    /\ searchIndexRef = Null
    /\ searchItemsRef = <<>>
    /\ apiInput = ""
    /\ boundingElements = <<>>
    /\ bboxHighlights = <<>>
    /\ memoizedSearchResults = <<>>
    /\ resultsIsMemo = FALSE
    /\ effectDue = FALSE
    /\ alerted = ""
    /\ tasks = {}
    /\ loads = 0

\* handleFileChange up to its first await, and <Document file={pdf}> loading
Viewer_handleFileChange(file) ==
    /\ ViewerIdle
    /\ loads < MaxLoads
    /\ pdf' = file
    /\ tasks' = {t \in tasks : t.kind # "Document"}
                  \cup {[kind |-> "getDocument", file |-> file, n |-> loads + 1],
                        [kind |-> "Document", file |-> file, n |-> loads + 1]}
    /\ loads' = loads + 1
    /\ alerted' = ""
    /\ UNCHANGED <<mounted, scale, searchText, apiData, searchResults, metadata,
                   highlights, pdfDocumentRef, searchIndexRef, searchItemsRef,
                   apiInput, boundingElements, bboxHighlights,
                   memoizedSearchResults, resultsIsMemo, effectDue>>

\* <Document onLoadSuccess>
Viewer_DocumentOnLoadSuccess(task) ==
    /\ ViewerIdle
    /\ task \in tasks /\ task.kind = "Document"
    /\ metadata' = [metadata EXCEPT !.totalPages = NumPages(task.file)]
    /\ tasks' = tasks \ {task}
    /\ alerted' = ""
    /\ UNCHANGED <<mounted, pdf, scale, searchText, apiData, searchResults,
                   highlights, pdfDocumentRef, searchIndexRef, searchItemsRef,
                   apiInput, boundingElements, bboxHighlights,
                   memoizedSearchResults, resultsIsMemo, effectDue, loads>>

\* handleFileChange after getDocument resolved: the ref is set and
\* buildSearchIndex(doc) starts its loop at page 1
Viewer_getDocumentResolved(task) ==
    /\ ViewerIdle
    /\ task \in tasks /\ task.kind = "getDocument"
    /\ pdfDocumentRef' = task.file
    /\ IF LoopCondition(1, NumPages(task.file))
       THEN /\ tasks' = (tasks \ {task})
                          \cup {[kind |-> "buildSearchIndex", file |-> task.file,
                                 n |-> task.n, pageIndex |-> 1,
                                 searchableItems |-> <<>>]}
            /\ UNCHANGED <<searchItemsRef, searchIndexRef>>
       ELSE /\ tasks' = tasks \ {task}
            /\ searchItemsRef' = <<>>
            /\ searchIndexRef' = lunr(<<>>)
    /\ alerted' = ""
    /\ UNCHANGED <<mounted, pdf, scale, searchText, apiData, searchResults,
                   metadata, highlights, apiInput, boundingElements,
                   bboxHighlights, memoizedSearchResults, resultsIsMemo,
                   effectDue, loads>>

\* buildSearchIndex: one turn of the loop (getPage and getTextContent
\* resolved); after the last page the two refs are assigned
buildSearchIndexPage(task) ==
    /\ ViewerIdle
    /\ task \in tasks /\ task.kind = "buildSearchIndex"
    /\ LoopCondition(task.pageIndex, NumPages(task.file))
    /\ LET searchableItems ==
               task.searchableItems \o PageSearchableItems(task.file, task.pageIndex)
       IN IF LoopCondition(task.pageIndex + 1, NumPages(task.file))
          THEN /\ tasks' = (tasks \ {task})
                             \cup {[task EXCEPT !.pageIndex = @ + 1,
                                                !.searchableItems = searchableItems]}
               /\ UNCHANGED <<searchItemsRef, searchIndexRef>>
          ELSE /\ tasks' = tasks \ {task}
               /\ searchItemsRef' = searchableItems
               /\ searchIndexRef' = lunr(searchableItems)
    /\ alerted' = ""
    /\ UNCHANGED <<mounted, pdf, scale, searchText, apiData, searchResults,
                   metadata, highlights, pdfDocumentRef, apiInput,
                   boundingElements, bboxHighlights, memoizedSearchResults,
                   resultsIsMemo, effectDue, loads>>

-----------------------------------------------------------------------------
(* part_002: bounding-box highlights from the pasted JSON *)

\* node.bbox && node.value && node.page
HasBBox(node) == Truthy(node.bbox) /\ Truthy(node.value) /\ Truthy(node.page)

\* node.children && Array.isArray(node.children): the children to traverse
ChildrenOf(node) ==
    IF Truthy(node.children) /\ IsArray(node.children)
    THEN node.children.items ELSE <<>>

RECURSIVE NextAwait(_)
\* traverse runs on, without waiting, over the nodes that make no getPage
\* call: todo holds the nodes still to visit, in visiting order
NextAwait(todo) ==
    IF todo = <<>> THEN <<>>
    ELSE IF HasBBox(Head(todo)) THEN todo
    ELSE NextAwait(ChildrenOf(Head(todo)) \o Tail(todo))

\* a conversion that moves the box without turning it over
ConvertBBox_notFlipped(bbox, height) ==
    <<bbox.items[1], height - bbox.items[2], bbox.items[3], height - bbox.items[4]>>

\* the bbox pushed for a node on a page of viewport height `height`
ConvertBBox(bbox, height) ==
    <<bbox.items[1], height - bbox.items[4], bbox.items[3], height - bbox.items[2]>>

\* highlights.push({ id, page, bbox, value })
BBoxHighlight(node, height) ==
    [id |-> node.id, page |-> node.page,
     bbox |-> ConvertBBox(node.bbox, height), value |-> node.value]

RECURSIVE InsertByPage(_, _)
InsertByPage(sorted, h) ==
    IF sorted = <<>> THEN <<h>>
    ELSE IF sorted[Len(sorted)].page.v - h.page.v > 0
         THEN Append(InsertByPage(SubSeq(sorted, 1, Len(sorted) - 1), h),
                     sorted[Len(sorted)])
         ELSE Append(sorted, h)

RECURSIVE SortByPage(_)
\* bboxHighlights.sort((a, b) => a.page - b.page), in place, while rendering
SortByPage(hs) ==
    IF hs = <<>> THEN <<>>
    ELSE InsertByPage(SortByPage(SubSeq(hs, 1, Len(hs) - 1)), hs[Len(hs)])

\* an overlay that takes the right and bottom edges for width and height
BBoxOverlay_edgesAsSize(highlight, s) ==
    [left |-> highlight.bbox[1] * s,
     top |-> highlight.bbox[2] * s,
     width |-> highlight.bbox[3] * s,
     height |-> highlight.bbox[4] * s]

\* style of the overlay of a bbox highlight at scale s (tenths): all lengths
\* are in tenths of a pixel
BBoxOverlay(highlight, s) ==
    [left |-> highlight.bbox[1] * s,
     top |-> highlight.bbox[2] * s,
     width |-> (highlight.bbox[3] - highlight.bbox[1]) * s,
     height |-> (highlight.bbox[4] - highlight.bbox[2]) * s]

\* bboxHighlights.filter((highlight) => highlight.page === index + 1)
OnPage(highlight, index) == highlight.page = Num(index + 1)

\* the overlays drawn inside the <div data-page-number={index + 1}>
PageOverlays(index) ==
    LET mine == SelectSeq(bboxHighlights, LAMBDA h : OnPage(h, index))
    IN [i \in 1..Len(mine) |-> BBoxOverlay(mine[i], scale)]

\* onChange of the JSON textarea
setJsonInput(text) ==
    /\ ViewerIdle
    /\ text # apiInput
    /\ apiInput' = text
    /\ alerted' = ""
    /\ UNCHANGED <<mounted, pdf, scale, searchText, apiData, searchResults,
                   metadata, highlights, pdfDocumentRef, searchIndexRef,
                   searchItemsRef, boundingElements, bboxHighlights,
                   memoizedSearchResults, resultsIsMemo, effectDue, tasks, loads>>

\* the parses under way are told apart by a slot number
FreeSlots == (1..MaxPending) \ {t.slot : t \in {u \in tasks : u.kind = "parse"}}
FreeSlot == CHOOSE k \in FreeSlots : \A j \in FreeSlots : k <= j

\* catch (error) { console.error("Invalid JSON:", error) }
catchInvalidJson ==
    /\ alerted' = "Invalid JSON"
    /\ UNCHANGED <<bboxHighlights, tasks>>

\* the Parse API Response button: JSON.parse, handleJsonData and
\* parseJsonToHighlights up to its first getPage call.  Reading result of
\* null and iterating a result that is no array throw a TypeError.
parseApiResponse ==
    /\ ViewerIdle
    /\ FreeSlots # {}
    /\ LET parsed == JSONParse(apiInput)
       IN IF ~parsed.ok \/ parsed.data = Null
          THEN catchInvalidJson
          ELSE IF pdfDocumentRef = NoFile
          THEN /\ bboxHighlights' = <<>>
               /\ alerted' = ""
               /\ UNCHANGED tasks
          ELSE IF ~IsArray(GetResult(parsed.data))
          THEN catchInvalidJson
          ELSE LET todo == NextAwait(parsed.data.result.items)
               IN /\ alerted' = ""
                  /\ IF todo = <<>>
                     THEN bboxHighlights' = <<>> /\ UNCHANGED tasks
                     ELSE /\ tasks' = tasks \cup
                               {[kind |-> "parse", slot |-> FreeSlot,
                                 doc |-> pdfDocumentRef,
                                 todo |-> todo, highlights |-> <<>>]}
                          /\ UNCHANGED bboxHighlights
    /\ UNCHANGED <<mounted, pdf, scale, searchText, apiData, searchResults,
                   metadata, highlights, pdfDocumentRef, searchIndexRef,
                   searchItemsRef, apiInput, boundingElements,
                   memoizedSearchResults, resultsIsMemo, effectDue, loads>>

\* traverse after getPage(node.page) settled for the node at the head of
\* todo: the page was asked of task.doc, the document of the time of the call
traverse(task) ==
    /\ ViewerIdle
    /\ task \in tasks /\ task.kind = "parse"
    /\ LET node == Head(task.todo)
       IN IF ~HasPage(task.doc, node.page.v)
          THEN /\ alerted' = "Invalid JSON"
               /\ tasks' = tasks \ {task}
               /\ UNCHANGED bboxHighlights
          ELSE LET pushed == Append(task.highlights,
                       BBoxHighlight(node, ViewportHeight(task.doc, node.page.v)))
                   todo == NextAwait(ChildrenOf(node) \o Tail(task.todo))
               IN /\ alerted' = ""
                  /\ IF todo = <<>>
                     THEN /\ bboxHighlights' = SortByPage(pushed)
                          /\ tasks' = tasks \ {task}
                     ELSE /\ tasks' = (tasks \ {task}) \cup
                               {[kind |-> "parse", slot |-> task.slot,
                                 doc |-> pdfDocumentRef,
                                 todo |-> todo, highlights |-> pushed]}
                          /\ UNCHANGED bboxHighlights
    /\ UNCHANGED <<mounted, pdf, scale, searchText, apiData, searchResults,
                   metadata, highlights, pdfDocumentRef, searchIndexRef,
                   searchItemsRef, apiInput, boundingElements,
                   memoizedSearchResults, resultsIsMemo, effectDue, loads>>

\* a click on entry h of the Highlights list
selectHighlight(h) ==
    /\ ViewerIdle
    /\ h \in 1..Len(bboxHighlights)
    /\ metadata' = [metadata EXCEPT !.currentPage = bboxHighlights[h].page.v]
    /\ alerted' = ""
    /\ UNCHANGED <<mounted, pdf, scale, searchText, apiData, searchResults,
                   highlights, pdfDocumentRef, searchIndexRef, searchItemsRef,
                   apiInput, boundingElements, bboxHighlights,
                   memoizedSearchResults, resultsIsMemo, effectDue, tasks, loads>>

\* loading files and parsing pasted JSON: the index and the bbox highlights;
\* the page count and the selection are left as they are
NextViewer ==
    \/ \E file \in Files : Viewer_handleFileChange(file)
    \/ \E task \in tasks : Viewer_getDocumentResolved(task)
    \/ \E task \in tasks : buildSearchIndexPage(task)
    \/ \E text \in JsonTexts : setJsonInput(text)
    \/ parseApiResponse
    \/ \E task \in tasks : traverse(task)

\* part_002, the all-pages viewer, while files are chosen and JSON is parsed
SpecViewer == InitViewer /\ [][NextViewer]_vars

-----------------------------------------------------------------------------
(* App.tsx: processAPIElements on its own, over every API tree of up to    *)
(* MaxNodes elements.  A tree is described by the parent of each element   *)
(* (0 for an element of the result array), the elements being numbered in  *)
(* the order of the text, and by the kind of each element.                 *)

\* what an element of the payload may look like: its value, its bounding
\* box, and how it spells "no children"
ElementKinds ==
    {[value |-> Str(<<"x">>), boundingBox |-> BoundingBox(1, 2, 3, 4),
      noChildren |-> Undefined],
     [value |-> Str(<<" ">>), boundingBox |-> BoundingBox(5, 6, 7, 8),
      noChildren |-> Arr(<<>>)],
     [value |-> Undefined, boundingBox |-> Undefined, noChildren |-> Undefined],
     [value |-> Str(<<" ", "y", " ">>), boundingBox |-> Null,
      noChildren |-> Arr(<<>>)]}

RECURSIVE AncestorsOrSelf(_, _)
\* element i and the elements it is nested in
AncestorsOrSelf(parent, i) ==
    IF i = 0 THEN {} ELSE {i} \cup AncestorsOrSelf(parent, parent[i])

\* the parent functions of the trees of n elements written in text order
TreeShapes(n) ==
    {parent \in [1..n -> 0..(n - 1)] :
        /\ parent[1] = 0
        /\ \A i \in 2..n :
              parent[i] \in {0} \cup AncestorsOrSelf(parent, i - 1)}

\* the descriptions of the pasted trees
TreeTexts ==
    UNION {[parent : TreeShapes(n), kind : [1..n -> ElementKinds]] :
              n \in 1..MaxNodes}

\* the numbers of the children of element i (0: of the result array), in order
ChildNumbers(tree, i) ==
    LET kids == {j \in DOMAIN tree.parent : tree.parent[j] = i}
    IN [k \in 1..Cardinality(kids) |->
          CHOOSE j \in kids : Cardinality({m \in kids : m < j}) = k - 1]

RECURSIVE ParseElement(_, _)
\* JSON.parse of element i of the tree
ParseElement(tree, i) ==
    LET kids == ChildNumbers(tree, i)
    IN APIElement(ToString(i), Num(i), tree.kind[i].value,
                  tree.kind[i].boundingBox,
                  IF kids = <<>> THEN tree.kind[i].noChildren
                  ELSE Arr([k \in 1..Len(kids) |-> ParseElement(tree, kids[k])]))

\* JSON.parse of the result array of the tree
ParseResult(tree) ==
    LET kids == ChildNumbers(tree, 0)
    IN [k \in 1..Len(kids) |-> ParseElement(tree, kids[k])]

InitFlatten ==
    /\ mounted = "processAPIElements"
    /\ pdf = NoFile
    /\ scale = 10
    /\ searchText = <<>>
    /\ apiData = Null
    /\ searchResults = <<>>
    /\ metadata = [totalPages |-> 0, currentPage |-> 1]
    /\ highlights = <<>>
    /\ pdfDocumentRef = NoFile
    /\ searchIndexRef = Null
    /\ searchItemsRef = <<>>
    /\ apiInput \in TreeTexts
    /\ boundingElements = <<>>
    /\ bboxHighlights = <<>>
    /\ memoizedSearchResults = <<>>
    /\ resultsIsMemo = FALSE
    /\ effectDue = FALSE
    /\ alerted = ""
    /\ tasks = {}
    /\ loads = 0

\* const items = processAPIElements(apiResponse.result)
flatten ==
    /\ mounted = "processAPIElements"
    /\ apiData = Null
    /\ apiData' = APIResponse(TitleMetadata, Arr(ParseResult(apiInput)))
    /\ boundingElements' = processAPIElements(ParseResult(apiInput))
    /\ UNCHANGED <<mounted, pdf, scale, searchText, searchResults, metadata,
                   highlights, pdfDocumentRef, searchIndexRef, searchItemsRef,
                   apiInput, bboxHighlights, memoizedSearchResults,
                   resultsIsMemo, effectDue, alerted, tasks, loads>>

NextFlatten == flatten
SpecFlatten == InitFlatten /\ [][NextFlatten]_vars

-----------------------------------------------------------------------------
(* part_002: calculateHighlights on its own, over every text run of up to  *)
(* MaxStrLen characters and every search text of up to MaxSearchLen        *)
(* characters.  A quotient is kept exact, as numerator and denominator.    *)

\* the characters of the runs and of the search texts
Chars == {"x", "y", "X", " ", "."}

\* \w
WordChars == {"x", "y", "X"}

Strings(maxLen) == UNION {[1..n -> Chars] : n \in 0..maxLen}

\* a / b
Quotient(a, b) == [n |-> a, d |-> b]
\* k * q and a + q for an integer and a quotient
Times(k, q) == [n |-> k * q.n, d |-> q.d]
Plus(a, q) == [n |-> a * q.d + q.n, d |-> q.d]

\* \b at offset k of text: a word character on exactly one side
WordBoundary(text, k) ==
    (k >= 1 /\ text[k] \in WordChars)
       # (k + 1 <= Len(text) /\ text[k + 1] \in WordChars)

\* one character of the pattern source against one character of the text,
\* with the flag i: "." is any character, every other character is itself
AtomMatches(atom, c) == atom = "." \/ Lower(atom) = Lower(c)

\* new RegExp(`\\b${source}\\b`, "i") matches text at offset start
MatchesAt(source, text, start) ==
    /\ WordBoundary(text, start)
    /\ start + Len(source) <= Len(text)
    /\ \A k \in 1..Len(source) : AtomMatches(source[k], text[start + k])
    /\ WordBoundary(text, start + Len(source))

\* text.match(regex): the index of the leftmost match, or null
StringMatch(text, source) ==
    LET starts == {i \in 0..Len(text) : MatchesAt(source, text, i)}
    IN IF starts = {} THEN Null
       ELSE [t |-> "obj",
             index |-> CHOOSE i \in starts : \A j \in starts : i <= j]

\* the highlight pushed for a match that the expression matched
RunHighlight(match, match_result, viewport, text) ==
    LET start == match_result.index
        charWidth == Quotient(match.width, Len(match.str.s))
    IN [left |-> Plus(match.left, Times(start, charWidth)),
        top |-> viewport.height - match.bottom - 10,
        width |-> Times(Len(text), charWidth),
        height |-> match.height]

\* calculateHighlights(matches, viewport, searchText) of part_002
Viewer_calculateHighlights(matches, viewport, text) ==
    LET hit == SelectSeq(matches,
                  LAMBDA match : StringMatch(match.str.s, text) # Null)
    IN [k \in 1..Len(hit) |->
          RunHighlight(hit[k], StringMatch(hit[k].str.s, text), viewport, text)]

\* the width of a text run: 7 units a character
RunWidth(str) == 7 * Len(str)

InitCalc ==
    /\ mounted = "calculateHighlights"
    /\ pdf = NoFile
    /\ scale = 13
    /\ searchText \in Strings(MaxSearchLen) \ {<<>>}
    /\ apiData = Null
    /\ \E str \in Strings(MaxStrLen) :
          searchResults =
             <<[pageIndex |-> 1,
                matches |-> <<TextItem(str, 10, 80, RunWidth(str), 10)>>]>>
    /\ metadata = [totalPages |-> 1, currentPage |-> 1]
    /\ highlights = <<>>
    /\ pdfDocumentRef = NoFile
    /\ searchIndexRef = Null
    /\ searchItemsRef = <<>>
    /\ apiInput = <<>>
    /\ boundingElements = <<>>
    /\ bboxHighlights = <<>>
    /\ memoizedSearchResults = <<>>
    /\ resultsIsMemo = FALSE
    /\ effectDue = TRUE
    /\ alerted = ""
    /\ tasks = {}
    /\ loads = 0

\* allHighlights[pageIndex] = calculateHighlights(matches, viewport, searchText)
calculate ==
    /\ mounted = "calculateHighlights"
    /\ effectDue
    /\ highlights' = Viewer_calculateHighlights(searchResults[1].matches,
                                                [height |-> 100], searchText)
    /\ effectDue' = FALSE
    /\ UNCHANGED <<mounted, pdf, scale, searchText, apiData, searchResults,
                   metadata, pdfDocumentRef, searchIndexRef, searchItemsRef,
                   apiInput, boundingElements, bboxHighlights,
                   memoizedSearchResults, resultsIsMemo, alerted, tasks, loads>>

NextCalc == calculate
SpecCalc == InitCalc /\ [][NextCalc]_vars

-----------------------------------------------------------------------------
(* part_002: searching.  The text typed recomputes memoizedSearchResults;  *)
(* the Search button shows them and starts calculateAllHighlights, which   *)
(* awaits getPage once for every page group before it sets the highlights. *)

\* insert g into the groups sorted by page, after those not sorting after it
RECURSIVE Viewer_InsertGroup(_, _)
Viewer_InsertGroup(sorted, g) ==
    IF sorted = <<>> THEN <<g>>
    ELSE IF sorted[Len(sorted)].pageIndex - g.pageIndex > 0
         THEN Append(Viewer_InsertGroup(SubSeq(sorted, 1, Len(sorted) - 1), g),
                     sorted[Len(sorted)])
         ELSE Append(sorted, g)

RECURSIVE Viewer_SortGroups(_)
\* .sort((a, b) => a.pageIndex - b.pageIndex)
Viewer_SortGroups(groups) ==
    IF groups = <<>> THEN <<>>
    ELSE Viewer_InsertGroup(Viewer_SortGroups(SubSeq(groups, 1, Len(groups) - 1)),
                            groups[Len(groups)])

\* the body of useMemo: the groups hold item.item, the text items themselves
Viewer_GroupResults(results, items) ==
    LET groups == reduceResults(results, items, <<>>)
    IN Viewer_SortGroups(
          [g \in 1..Len(groups) |->
              [pageIndex |-> groups[g].pageIndex,
               matches |-> [m \in 1..Len(groups[g].matches) |->
                               groups[g].matches[m].item]]])

\* onChange of the search input; useMemo has the dependencies [searchText]
Viewer_setSearchText(text) ==
    /\ ViewerIdle
    /\ text # searchText
    /\ searchText' = text
    /\ IF searchIndexRef = Null \/ text = <<>>
       THEN memoizedSearchResults' = <<>>
       ELSE \E results \in search(searchIndexRef, text) :
               memoizedSearchResults' =
                  Viewer_GroupResults(results, searchItemsRef)
    /\ resultsIsMemo' = FALSE
    /\ alerted' = ""
    /\ UNCHANGED <<mounted, pdf, scale, apiData, searchResults, metadata,
                   highlights, pdfDocumentRef, searchIndexRef, searchItemsRef,
                   apiInput, boundingElements, bboxHighlights, effectDue,
                   tasks, loads>>

\* the computations of highlights that are under way
Calculations == {t \in tasks : t.kind = "calculateAllHighlights"}

\* a number no computation under way carries
FreeCalculation ==
    CHOOSE n \in 1..MaxSearches : \A t \in Calculations : t.n # n

\* handleSearch of part_002, up to the first await of calculateAllHighlights
Viewer_handleSearch ==
    /\ ViewerIdle
    /\ IF searchText = <<>>
       THEN /\ searchResults' = <<>>
            /\ highlights' = <<>>
            /\ resultsIsMemo' = FALSE
            /\ UNCHANGED tasks
       ELSE /\ searchResults' = memoizedSearchResults
            /\ resultsIsMemo' = TRUE
            /\ IF pdfDocumentRef = NoFile
               THEN UNCHANGED <<highlights, tasks>>
               ELSE IF memoizedSearchResults = <<>>
               THEN /\ highlights' = <<>>
                    /\ UNCHANGED tasks
               ELSE /\ Cardinality(Calculations) < MaxSearches
                    /\ tasks' = tasks \cup
                          {[kind |-> "calculateAllHighlights",
                            n |-> FreeCalculation,
                            doc |-> pdfDocumentRef,
                            todo |-> memoizedSearchResults,
                            allHighlights |-> <<>>,
                            searchText |-> searchText]}
                    /\ UNCHANGED highlights
    /\ alerted' = ""
    /\ UNCHANGED <<mounted, pdf, scale, searchText, apiData, metadata,
                   pdfDocumentRef, searchIndexRef, searchItemsRef, apiInput,
                   boundingElements, bboxHighlights, memoizedSearchResults,
                   effectDue, loads>>

\* allHighlights[pageIndex] = value
SetPage(allHighlights, pageIndex, value) ==
    [p \in DOMAIN allHighlights \cup {pageIndex} |->
        IF p = pageIndex THEN value ELSE allHighlights[p]]

\* calculateAllHighlights: one turn of its loop, when the getPage it awaits
\* has answered.  A rejected getPage ends the function; after the last
\* result it calls setHighlights(allHighlights).
calculateAllHighlightsPage(task) ==
    /\ ViewerIdle
    /\ task \in Calculations
    /\ LET result == Head(task.todo)
           viewport == [height |-> ViewportHeight(task.doc, result.pageIndex)]
           allHighlights ==
               SetPage(task.allHighlights, result.pageIndex,
                       Viewer_calculateHighlights(result.matches, viewport,
                                                  task.searchText))
       IN IF ~HasPage(task.doc, result.pageIndex)
          THEN /\ tasks' = tasks \ {task}
               /\ UNCHANGED highlights
          ELSE IF Tail(task.todo) # <<>>
          THEN /\ tasks' = (tasks \ {task}) \cup
                     {[task EXCEPT !.doc = pdfDocumentRef,
                                   !.todo = Tail(@),
                                   !.allHighlights = allHighlights]}
               /\ UNCHANGED highlights
          ELSE /\ tasks' = tasks \ {task}
               /\ highlights' = allHighlights
    /\ alerted' = ""
    /\ UNCHANGED <<mounted, pdf, scale, searchText, apiData, searchResults,
                   metadata, pdfDocumentRef, searchIndexRef, searchItemsRef,
                   apiInput, boundingElements, bboxHighlights,
                   memoizedSearchResults, resultsIsMemo, effectDue, loads>>

\* choosing a file, typing a search text and clicking Search, with the
\* promises of the load and of the highlight computations
NextSearch ==
    \/ \E file \in Files : Viewer_handleFileChange(file)
    \/ \E task \in tasks : Viewer_DocumentOnLoadSuccess(task)
    \/ \E task \in tasks : Viewer_getDocumentResolved(task)
    \/ \E task \in tasks : buildSearchIndexPage(task)
    \/ \E text \in SearchTexts : Viewer_setSearchText(text)
    \/ Viewer_handleSearch
    \/ \E task \in tasks : calculateAllHighlightsPage(task)

\* part_002, the all-pages viewer, while a file is searched
SpecSearch == InitViewer /\ [][NextSearch]_vars

\* either component, for the claims about both
InitPaste == InitApp \/ InitViewer
NextPaste == NextApp \/ NextViewer
SpecPaste == InitPaste /\ [][NextPaste]_vars

-----------------------------------------------------------------------------
(* Claims *)

\* the highlight the claim expects for a node on a page of height H
C1_Converted(node, H) ==
    [id |-> node.id, page |-> node.page, value |-> node.value,
     bbox |-> <<node.bbox.items[1], H - node.bbox.items[4],
                node.bbox.items[3], H - node.bbox.items[2]>>]

\* the traverse step of task pushed highlight h: it ends the list of the
\* continuing task, or is in the list the finished task handed to React
C1_Pushed(task, h) ==
    \/ \E t2 \in tasks' : /\ t2.kind = "parse"
                          /\ t2.slot = task.slot
                          /\ t2.highlights = Append(task.highlights, h)
    \/ /\ Len(bboxHighlights') = Len(task.highlights) + 1
       /\ h \in Range(bboxHighlights')
       /\ Range(task.highlights) \subseteq Range(bboxHighlights')

\* C1: parseJsonToHighlights turns the bbox [x1, y1, x2, y2] of each node it
\* highlights (a node with a bbox, a value and a page) into
\* [x1, H - y2, x2, H - y1], H being the height at scale 1 of the node's page;
\* when 0 <= y1 <= y2 <= H the top is >= 0 and <= the bottom
C1_BBoxConversion ==
    [][\A task \in tasks :
          (traverse(task) /\ HasPage(task.doc, Head(task.todo).page.v)) =>
             LET node == Head(task.todo)
                 H == ViewportHeight(task.doc, node.page.v)
                 y1 == node.bbox.items[2]
                 y2 == node.bbox.items[4]
                 h == C1_Converted(node, H)
             IN /\ C1_Pushed(task, h)
                /\ (0 <= y1 /\ y1 <= y2 /\ y2 <= H) =>
                      (h.bbox[2] >= 0 /\ h.bbox[2] <= h.bbox[4])
      ]_vars

\* the boxes of v2 (page 2, height 200) and v4 (y1 = 0, y2 = H) were converted
C1_Witness ==
    /\ \E h \in Range(bboxHighlights) : h.id = "v2" /\ h.bbox = <<5, 10, 25, 50>>
    /\ \E h \in Range(bboxHighlights) : h.id = "v4" /\ h.bbox = <<0, 0, 90, 100>>

C2_Untouched ==
    UNCHANGED <<apiData, boundingElements, bboxHighlights, searchIndexRef,
                searchItemsRef, searchResults, highlights, metadata, scale>>

\* C2: a click on the process / parse button with pasted text that is not
\* valid JSON is caught (it is reported, nothing else happens) and leaves
\* apiData, boundingElements, bboxHighlights, the search index and items,
\* searchResults, highlights, currentPage and scale as they were
C2_InvalidJsonChangesNothing ==
    [][ /\ (handleProcessAPI /\ ~JSONParse(apiInput).ok) =>
              (C2_Untouched /\ alerted' = "Error processing API response")
        /\ (parseApiResponse /\ ~JSONParse(apiInput).ok) =>
              (C2_Untouched /\ UNCHANGED tasks /\ alerted' = "Invalid JSON")
      ]_vars

\* App.tsx: invalid JSON was refused while data, results and highlights existed
C2_Witness ==
    /\ mounted = "App"
    /\ alerted = "Error processing API response"
    /\ ~JSONParse(apiInput).ok
    /\ apiData # Null
    /\ searchResults # <<>>
    /\ highlights # <<>>
    /\ metadata.currentPage # 1

\* part_002: invalid JSON was refused while bbox highlights and an index existed
C2_WitnessViewer ==
    /\ mounted = "Viewer"
    /\ alerted = "Invalid JSON"
    /\ ~JSONParse(apiInput).ok
    /\ bboxHighlights # <<>>
    /\ searchIndexRef # Null

\* element i of the flattened tree has a value that is not blank
C5_Kept(i) ==
    /\ apiInput.kind[i].value # Undefined
    /\ \E k \in 1..Len(apiInput.kind[i].value.s) :
          apiInput.kind[i].value.s[k] # " "

\* the place of the item of element i in the flattened list, 0 if it has none
C5_Place(i) ==
    LET at == {k \in 1..Len(boundingElements) :
                  boundingElements[k].id = ToString(i)}
    IN IF at = {} THEN 0 ELSE CHOOSE k \in at : TRUE

\* element i is element j or is nested, at any depth, in element j
C5_Within(i, j) == j \in AncestorsOrSelf(apiInput.parent, i)

C3_TextItemsOf(file, p) ==
    LET all == TextContentItems(file, p)
    IN SelectSeq(all, LAMBDA item : item # MarkedContent)

\* items and index hold exactly the text items of the pages 1..numPages of file
C3_Exact(file, items, index) ==
    /\ \A p \in 1..NumPages(file) :
          \A k \in 1..Len(C3_TextItemsOf(file, p)) :
             LET mine == {i \in 1..Len(items) :
                             /\ items[i].pageIndex = p
                             /\ items[i].id = ToString(p) \o "-" \o ToString(k - 1)}
             IN /\ Cardinality(mine) = 1
                /\ \A i \in mine :
                      /\ items[i].item = C3_TextItemsOf(file, p)[k]
                      /\ items[i].text = C3_TextItemsOf(file, p)[k].str
    /\ \A i \in 1..Len(items) :
          /\ items[i].pageIndex \in 1..NumPages(file)
          /\ items[i].item \in Range(C3_TextItemsOf(file, items[i].pageIndex))
    /\ \A i, j \in 1..Len(items) : i # j => items[i].id # items[j].id
    /\ index # Null
    /\ Len(index.docs) = Len(items)
    /\ \A i \in 1..Len(items) :
          /\ index.docs[i].ref = items[i].id
          /\ index.docs[i].tokens = Tokenize(items[i].text.s)

C6_WholeWordAt(text, word) ==
    {i \in 0..(Len(text) - Len(word)) :
        /\ WordBoundary(text, i)
        /\ \A k \in 1..Len(word) : Lower(text[i + k]) = Lower(word[k])
        /\ WordBoundary(text, i + Len(word))}

\* what the claim says of the highlights of one run
C6_AsClaimed(run, text, result) ==
    LET str == run.str.s
        found == C6_WholeWordAt(str, text)
    IN IF found = {} THEN result = <<>>
       ELSE /\ Len(result) = 1
            /\ \E start \in found :
                  \* left = run left + start * (run width / length)
                  /\ result[1].left.n * Len(str)
                        = (run.left * Len(str) + start * run.width)
                             * result[1].left.d
                  \* width = search-text length * (run width / length)
                  /\ result[1].width.n * Len(str)
                        = (Len(text) * run.width) * result[1].width.d
            \* run left <= left and left + width <= run left + run width
            /\ run.left * result[1].left.d <= result[1].left.n
            /\ result[1].left.n * result[1].width.d
                  + result[1].width.n * result[1].left.d
                  <= (run.left + run.width) * result[1].left.d
                        * result[1].width.d

\* C6: for a run that holds the search text as a whole word, without regard
\* to case, calculateHighlights emits one highlight with
\* left = run left + start * charWidth and width = length * charWidth,
\* charWidth = run width / run length, inside the extent of the run; a run
\* that does not hold the search text as a whole word gets no highlight
C6_HighlightWithinRun ==
    (mounted = "calculateHighlights" /\ ~effectDue) =>
       C6_AsClaimed(searchResults[1].matches[1], searchText, highlights)

\* the same for the search texts without a character that means something
\* else in a regular expression
C6_PlainSearchText ==
    (mounted = "calculateHighlights" /\ ~effectDue
       /\ \A k \in 1..Len(searchText) : searchText[k] # ".") =>
       C6_AsClaimed(searchResults[1].matches[1], searchText, highlights)

\* "x" is found as the second word of the run "y X"
C6_PlainWitness ==
    /\ mounted = "calculateHighlights" /\ ~effectDue
    /\ searchText = <<"x">>
    /\ searchResults[1].matches[1].str.s = <<"y", " ", "X">>
    /\ highlights = <<[left |-> [n |-> 72, d |-> 3], top |-> 10,
                       width |-> [n |-> 21, d |-> 3], height |-> 10]>>

\* the zoom scales, in tenths
C7_Scales == 5..20

\* C7: the overlay of a converted bbox at scale s has left = x1*s,
\* top = (H - y2)*s, width = (x2 - x1)*s and height = (y2 - y1)*s; width and
\* height are not negative when x1 <= x2 and y1 <= y2; and it is drawn on
\* the page the node names and on no other
C7_OverlayRectangle ==
    [][\A task \in tasks :
          (traverse(task) /\ HasPage(task.doc, Head(task.todo).page.v)) =>
             LET node == Head(task.todo)
                 H == ViewportHeight(task.doc, node.page.v)
                 x1 == node.bbox.items[1]
                 y1 == node.bbox.items[2]
                 x2 == node.bbox.items[3]
                 y2 == node.bbox.items[4]
             IN \E h \in {t2.highlights[Len(t2.highlights)] :
                             t2 \in {t \in tasks' : t.kind = "parse"
                                                    /\ t.slot = task.slot
                                                    /\ t.highlights # <<>>}}
                         \cup Range(bboxHighlights') :
                   /\ h.id = node.id
                   /\ \A s \in C7_Scales :
                         /\ BBoxOverlay(h, s) =
                               [left |-> x1 * s, top |-> (H - y2) * s,
                                width |-> (x2 - x1) * s, height |-> (y2 - y1) * s]
                         /\ (x1 <= x2 /\ y1 <= y2) =>
                               (BBoxOverlay(h, s).width >= 0
                                  /\ BBoxOverlay(h, s).height >= 0)
                   /\ \A index \in 0..3 :
                         OnPage(h, index) <=> (index + 1 = node.page.v)
      ]_vars

\* page 2 of a.pdf shows the overlay of v2 at scale 1.3, page 1 does not
C7_Witness ==
    /\ mounted = "Viewer"
    /\ pdfDocumentRef = "a.pdf"
    /\ PageOverlays(1) = <<[left |-> 65, top |-> 130, width |-> 260, height |-> 520]>>
    /\ Len(PageOverlays(0)) = 2


\* the boxes of the matches that have one, in order
BoxesOf(matches) ==
    LET boxed == SelectSeq(matches, LAMBDA m : m.boundingBox # Undefined)
    IN [i \in 1..Len(boxed) |->
          [left |-> boxed[i].boundingBox.x, top |-> boxed[i].boundingBox.y,
           width |-> boxed[i].boundingBox.width,
           height |-> boxed[i].boundingBox.height,
           pageIndex |-> boxed[i].pageIndex]]

\* what the claim expects on screen: the boxes of the group of the displayed page
C4_Expected ==
    LET groups == {g \in 1..Len(searchResults) :
                      searchResults[g].pageIndex = Num(metadata.currentPage)}
    IN IF groups = {} THEN <<>>
       ELSE BoxesOf(searchResults[CHOOSE g \in groups : TRUE].matches)

C4_Settled == ~effectDue /\ highlights = C4_Expected

C8_BadResult(parsed) ==
    parsed.ok /\ (parsed.data.t # "obj" \/ parsed.data.result.t # "arr")

C8_Rejected ==
    /\ alerted' = "Invalid API response format"
    /\ UNCHANGED <<apiData, boundingElements, searchIndexRef, searchItemsRef>>

\* C8 as stated: every parsed payload without a result array is reported as
\* 'Invalid API response format' and changes nothing
C8_Original ==
    [][(handleProcessAPI /\ C8_BadResult(JSONParse(apiInput))) => C8_Rejected]_vars

\* C8, amended: a parsed payload other than null without a result array is
\* reported as 'Invalid API response format'; the payload null is reported as
\* 'Error processing API response'; neither changes apiData, boundingElements,
\* the search index or the searchable items
C8_RejectsBadResult ==
    [][(handleProcessAPI /\ C8_BadResult(JSONParse(apiInput))) =>
          /\ UNCHANGED <<apiData, boundingElements, searchIndexRef, searchItemsRef>>
          /\ alerted' = IF JSONParse(apiInput).data = Null
                        THEN "Error processing API response"
                        ELSE "Invalid API response format"
      ]_vars

\* a payload without a result array was rejected while API data was loaded
C8_Witness ==
    /\ alerted = "Invalid API response format"
    /\ C8_BadResult(JSONParse(apiInput))
    /\ apiData # Null
    /\ boundingElements # <<>>

\* C9: goToElement leaves currentPage and highlights alone for an element whose
\* pageIndex is not a number, is negative, or names a page beyond totalPages,
\* and otherwise sets currentPage to pageIndex + 1
C9_GoToElementValidates ==
    [][\A e \in 1..Len(boundingElements) :
          goToElement(e) =>
             LET p == boundingElements[e].pageIndex
             IN IF p.t # "num" \/ p.v < 0 \/ p.v + 1 > metadata.totalPages
                THEN UNCHANGED <<metadata, highlights>>
                ELSE metadata'.currentPage = p.v + 1
      ]_vars

\* an element was refused while highlights were shown, on a page other than 1
C9_Witness ==
    /\ alerted \in {"Invalid page index", "Page exceeds total pages"}
    /\ highlights # <<>>
    /\ metadata.currentPage = 2

\* C10: a click on the result group labelled 'Page n', n = pageIndex + 1,
\* sets currentPage to n
C10_ResultOpensLabelledPage ==
    [][\A g \in 1..Len(searchResults) :
          goToSearchResult(g) =>
             metadata'.currentPage = searchResults[g].pageIndex.v + 1
      ]_vars

\* C11: whenever apiData is not null it has a result array and a metadata
\* object with a title, so the 'Loaded API data: <title>' line renders for
\* every payload handleProcessAPI accepted
C11_ApiDataHasShape ==
    (mounted = "App" /\ apiData # Null) =>
       /\ apiData.t = "obj"
       /\ apiData.result.t = "arr"
       /\ apiData.metadata.t = "obj"
       /\ "title" \in DOMAIN apiData.metadata
       /\ LoadedApiDataLine # "TypeError"

\* C12: every row of the 'Elements with Bounding Boxes' table, and every
\* element counted in its heading, is an element that has a bounding box
C12_ListedElementsHaveBoxes ==
    mounted = "App" =>
       /\ \A k \in 1..Len(filteredElements) :
             filteredElements[k].boundingBox \notin {Undefined, Null}
       /\ ElementsHeadingCount =
             Cardinality({k \in 1..Len(boundingElements) :
                             boundingElements[k].boundingBox \notin {Undefined, Null}})

\* the element of row e has a bounding box and a page of the document
C14_Shown(e) ==
    /\ boundingElements[e].boundingBox \notin {Undefined, Null}
    /\ boundingElements[e].pageIndex.t = "num"
    /\ boundingElements[e].pageIndex.v >= 0
    /\ boundingElements[e].pageIndex.v + 1 <= metadata.totalPages

\* the page and the highlights are those of the element of row e
C14_AtElement(e) ==
    /\ metadata'.currentPage = boundingElements[e].pageIndex.v + 1
    /\ highlights' =
          <<[left |-> boundingElements[e].boundingBox.x,
             top |-> boundingElements[e].boundingBox.y,
             width |-> boundingElements[e].boundingBox.width,
             height |-> boundingElements[e].boundingBox.height,
             pageIndex |-> boundingElements[e].pageIndex]>>

\* C14: goToElement for an element with a bounding box and a valid page
\* ends, once the effects have run, with currentPage = pageIndex + 1 and
\* with the box of the element as the only highlight, whether the page
\* changed (the highlight effect then runs next) or not
C14_GoToElementShowsBox ==
    [][\A e \in 1..Len(boundingElements) :
          /\ (goToElement(e) /\ C14_Shown(e) /\ ~effectDue') => C14_AtElement(e)
          /\ (highlightEffect /\ C14_Shown(e)
                /\ alerted = "Going to element: " \o boundingElements[e].id)
               => C14_AtElement(e)
      ]_vars

\* the same when the element is on the page already shown
C14_SamePage ==
    [][\A e \in 1..Len(boundingElements) :
          (goToElement(e) /\ C14_Shown(e) /\ ~effectDue') => C14_AtElement(e)
      ]_vars

\* Go to was clicked for n2, on page 2 already: its box is the highlight
C14_SamePageWitness ==
    /\ mounted = "App"
    /\ alerted = "Going to element: n2"
    /\ ~effectDue
    /\ metadata.currentPage = 2
    /\ highlights = <<[left |-> 5, top |-> 6, width |-> 7, height |-> 8,
                       pageIndex |-> Num(1)]>>

\* with a PDF of at least one page loaded, the page shown is one of its pages
C15_InRange ==
    (mounted = "App" /\ metadata.totalPages >= 1) =>
       (1 <= metadata.currentPage /\ metadata.currentPage <= metadata.totalPages)

\* Previous and Next move by one page, and not beyond the first and the last
C15_PrevNextStep ==
    [][ /\ handlePrevPage =>
              metadata'.currentPage =
                 IF metadata.currentPage <= 1 THEN metadata.currentPage
                 ELSE metadata.currentPage - 1
        /\ handleNextPage =>
              metadata'.currentPage =
                 IF metadata.currentPage >= metadata.totalPages
                 THEN metadata.currentPage
                 ELSE metadata.currentPage + 1
      ]_vars

\* C15: once a PDF with at least one page is loaded,
\* 1 <= currentPage <= totalPages after any sequence of Previous, Next,
\* goToSearchResult, goToElement and loading another PDF; Previous and Next
\* move by exactly one page and stay at page 1 and at the last page
C15_PageStaysInRange == []C15_InRange /\ C15_PrevNextStep

\* Next was clicked on page 1 of 2
C15_PrevNextWitness ==
    /\ mounted = "App"
    /\ metadata = [totalPages |-> 2, currentPage |-> 2]
    /\ effectDue
    /\ searchResults = <<>>
    /\ boundingElements = <<>>

\* what a query of the index of now with the search text of now may return
C16_QueryNow ==
    IF searchText = <<>> \/ searchIndexRef = Null THEN {<<>>}
    ELSE {GroupResults(results, searchItemsRef) :
             results \in search(searchIndexRef, searchText)}

\* C16: handleSearch sets searchResults to the result of querying the index
\* as it is when Search is clicked, with the current search text, also when
\* the text was typed before the index was built or rebuilt
C16_SearchQueriesCurrentIndex ==
    [][handleSearch => searchResults' \in C16_QueryNow]_vars

\* the same for the clicks that find the index as it was when the text was typed
C16_FreshWitness ==
    /\ mounted = "App"
    /\ searchText = <<"y">>
    /\ searchResults \in C16_QueryNow
    /\ Len(searchResults) = 2
    /\ resultsIsMemo

\* the highlights map calculateAllHighlights computes for the results and
\* the text of the last click on Search
C13_Computed ==
    LET pages == {searchResults[g].pageIndex : g \in 1..Len(searchResults)}
    IN [p \in pages |->
          LET g == CHOOSE g \in 1..Len(searchResults) :
                       searchResults[g].pageIndex = p
          IN Viewer_calculateHighlights(
                 searchResults[g].matches,
                 [height |-> ViewportHeight(pdfDocumentRef, p)], searchText)]

\* the last click on Search is known from the state: it showed no results,
\* or the text has not been typed over since
C13_LastKnown == searchResults = <<>> \/ resultsIsMemo

\* C13: in the all-pages viewer, once no highlight computation is pending,
\* the highlights map is the one computed for the last invocation of
\* handleSearch (the empty map when that invocation had no results or an
\* empty text)
C13_HighlightsOfLastSearch ==
    (mounted = "Viewer" /\ Calculations = {} /\ pdfDocumentRef # NoFile
       /\ C13_LastKnown)
    => highlights = C13_Computed

\* a search was overtaken by a later one, and nothing is pending any more
C13_Overtaken ==
    /\ mounted = "Viewer" /\ Calculations = {}
    /\ searchResults = <<>> /\ searchText = <<>>
    /\ highlights # <<>>

====
